---- MODULE Spec2Model ----
(***************************************************************************)
(* A model of the JWS core of OpenDSU/jwt: the algorithm dispatch engine   *)
(* (jwa), the compact serialization (jwsSign, jwsVerify, jwsDecode,        *)
(* isValidJws) and the streaming completion protocol (SignStream,          *)
(* VerifyStream).                                                          *)
(*                                                                         *)
(* JavaScript strings are sequences of character codes, Buffers are        *)
(* sequences of bytes; every JavaScript value is a record tagged by t.     *)
(* A call that may throw returns Ok(value) or Throw(errorName).            *)
(* A local the code assigns once and reads several times is bound once,    *)
(* With(value, LAMBDA local : ...).                                        *)
(***************************************************************************)
EXTENDS Integers, Sequences, FiniteSets, TLC

VARIABLES
    supportsKeyObjects, \* jwa/index.js: typeof crypto.createPublicKey === 'function'
    call,               \* the last call of the synchronous API, with its result
    secret,             \* a stream's key accumulator
    payload,            \* a stream's payload (sign) or signature (verify) accumulator
    stream,             \* the SignStream / VerifyStream instance
    twin                \* a second SignStream fed the same contents in another order

vars == <<supportsKeyObjects, call, secret, payload, stream, twin>>

\* F at the value x
With(x, F(_)) == CHOOSE r \in {F(v) : v \in {x}} : TRUE

\* ------------------------------------------------------------------------
\* JavaScript values
\* ------------------------------------------------------------------------
Undefined == [t |-> "undefined"]
Null == [t |-> "null"]
Str(text) == [t |-> "string", v |-> text]
Buf(bytes) == [t |-> "buffer", v |-> bytes]
Num(n) == [t |-> "number", n |-> n]
Bool(b) == [t |-> "boolean", b |-> b]
Arr(items) == [t |-> "array", items |-> items]
\* a plain object holding the two header fields the code reads
Obj(alg, typ) == [t |-> "object", alg |-> alg, typ |-> typ]
\* a key handle: crypto.KeyObject-like {type, asymmetricKeyType, export}
KeyObj(type, akt, exp, id) ==
    [t |-> "keyobject", type |-> type, asymmetricKeyType |-> akt, export |-> exp, id |-> id]

Ok(v) == [ok |-> TRUE, val |-> v, err |-> "none"]
Throw(e) == [ok |-> FALSE, val |-> Undefined, err |-> e]

\* JavaScript truthiness (the ! and || operators)
Truthy(x) ==
    CASE x.t = "undefined" -> FALSE
      [] x.t = "null" -> FALSE
      [] x.t = "string" -> Len(x.v) > 0
      [] x.t = "number" -> x.n # 0
      [] x.t = "boolean" -> x.b
      [] OTHER -> TRUE

\* a || b
OrElse(a, b) == IF Truthy(a) THEN a ELSE b

\* ------------------------------------------------------------------------
\* Text helpers
\* ------------------------------------------------------------------------
Dot == <<46>>

\* the first index at which text holds the code c, or 0
IndexOf(text, c) ==
    LET at == {i \in 1..Len(text) : text[i] = c}
    IN IF at = {} THEN 0 ELSE CHOOSE i \in at : \A j \in at : i <= j

\* String.prototype.split(sep) for a one-character separator
Split(text, c) ==
    LET at == {i \in 1..Len(text) : text[i] = c}
        \* the place of the k-th separator; 0 and Len + 1 stand at the two ends
        Sep(k) == IF k = 0 THEN 0
                  ELSE IF k > Cardinality(at) THEN Len(text) + 1
                  ELSE CHOOSE i \in at : Cardinality({j \in at : j < i}) = k - 1
    IN [k \in 1..(Cardinality(at) + 1) |-> SubSeq(text, Sep(k - 1) + 1, Sep(k) - 1)]

\* String.prototype.split(sep, limit)
SplitLimit(text, c, limit) ==
    LET all == Split(text, c)
    IN IF Len(all) > limit THEN SubSeq(all, 1, limit) ELSE all

RECURSIVE Join(_, _)
\* Array.prototype.join(sep)
Join(parts, sep) ==
    IF Len(parts) = 0 THEN <<>>
    ELSE IF Len(parts) = 1 THEN parts[1]
    ELSE parts[1] \o sep \o Join(Tail(parts), sep)

IsDigit(c) == c >= 48 /\ c <= 57
IsUpper(c) == c >= 65 /\ c <= 90
IsLower(c) == c >= 97 /\ c <= 122
\* the character class [a-zA-Z0-9\-_]
IsB64UrlChar(c) == IsDigit(c) \/ IsUpper(c) \/ IsLower(c) \/ c = 45 \/ c = 95

All(text, P(_)) == \A i \in 1..Len(text) : P(text[i])

\* ------------------------------------------------------------------------
\* Buffer encodings
\* ------------------------------------------------------------------------
B64Char(i) ==
    IF i < 26 THEN 65 + i
    ELSE IF i < 52 THEN 97 + (i - 26)
    ELSE IF i < 62 THEN 48 + (i - 52)
    ELSE IF i = 62 THEN 43 ELSE 47

\* the value of a base64 character; Node reads both alphabets; -1: not one
Sextet(c) ==
    IF IsUpper(c) THEN c - 65
    ELSE IF IsLower(c) THEN c - 97 + 26
    ELSE IF IsDigit(c) THEN c - 48 + 52
    ELSE IF c = 43 \/ c = 45 THEN 62
    ELSE IF c = 47 \/ c = 95 THEN 63
    ELSE -1

\* Buffer.prototype.toString('base64'): each group of three bytes gives four
\* characters, a last group of one or two bytes is padded with '='
Base64Encode(b) ==
    LET n == Len(b)
        At(i) == IF i <= n THEN b[i] ELSE 0
        Char(j) ==
            LET g == 3 * ((j - 1) \div 4)
                pos == (j - 1) % 4
            IN CASE pos = 0 -> B64Char(At(g + 1) \div 4)
                 [] pos = 1 -> B64Char((At(g + 1) % 4) * 16 + (At(g + 2) \div 16))
                 [] pos = 2 -> IF g + 2 > n THEN 61
                               ELSE B64Char((At(g + 2) % 16) * 4 + (At(g + 3) \div 64))
                 [] OTHER -> IF g + 3 > n THEN 61 ELSE B64Char(At(g + 3) % 64)
    IN [j \in 1..(4 * ((n + 2) \div 3)) |-> Char(j)]

\* groups of four sextets give three bytes; a last group of two or three
\* gives one or two, a single left-over sextet gives none
SextetsToBytes(s) ==
    LET Byte(k) ==
            LET g == 4 * ((k - 1) \div 3)
                pos == (k - 1) % 3
            IN CASE pos = 0 -> s[g + 1] * 4 + (s[g + 2] \div 16)
                 [] pos = 1 -> (s[g + 2] % 16) * 16 + (s[g + 3] \div 4)
                 [] OTHER -> (s[g + 3] % 4) * 64 + s[g + 4]
    IN [k \in 1..((Len(s) * 6) \div 8) |-> Byte(k)]

\* Buffer.from(text, 'base64'): stops at the padding, skips what is no
\* base64 character, reads the standard and the URL-safe alphabet
Base64Decode(text) ==
    LET pad == IndexOf(text, 61)
        body == IF pad = 0 THEN text ELSE SubSeq(text, 1, pad - 1)
        IsB64(c) == Sextet(c) >= 0
        kept == SelectSeq(body, IsB64)
    IN SextetsToBytes([i \in 1..Len(kept) |-> Sextet(kept[i])])

RECURSIVE Utf8EncodeWide(_)
Utf8EncodeWide(text) ==
    IF Len(text) = 0 THEN <<>>
    ELSE (IF text[1] < 128 THEN <<text[1]>>
          ELSE <<192 + (text[1] \div 64), 128 + (text[1] % 64)>>)
         \o Utf8EncodeWide(Tail(text))

\* Buffer.from(text, 'utf8') for code points below 2048: ASCII text is its
\* own encoding
Utf8Encode(text) ==
    IF \A i \in 1..Len(text) : text[i] < 128 THEN text ELSE Utf8EncodeWide(text)

\* Buffer.prototype.toString('utf8'): ASCII bytes are themselves, a byte that
\* starts no valid sequence is U+FFFD
Utf8Decode(bytes) == [i \in 1..Len(bytes) |-> IF bytes[i] < 128 THEN bytes[i] ELSE 65533]

\* Buffer.from(text, 'binary'): each code unit's low byte
BinaryEncode(text) == [i \in 1..Len(text) |-> text[i] % 256]

\* Buffer.prototype.toString('binary')
BinaryDecode(bytes) == bytes

BufferFrom(text, encoding) ==
    CASE encoding = "binary" -> BinaryEncode(text)
      [] encoding = "base64" -> Base64Decode(text)
      [] OTHER -> Utf8Encode(text)

\* .replace(/=/g, '').replace(/\+/g, '-').replace(/\//g, '_')
UrlSafe(b64) ==
    LET NotPad(c) == c # 61
        s == SelectSeq(b64, NotPad)
    IN [i \in 1..Len(s) |-> IF s[i] = 43 THEN 45 ELSE IF s[i] = 47 THEN 95 ELSE s[i]]

\* sign-stream.js base64url(string, encoding)
base64url(text, encoding) == UrlSafe(Base64Encode(BufferFrom(text, encoding)))

\* ------------------------------------------------------------------------
\* JSON
\* ------------------------------------------------------------------------
TxtAlg == <<97, 108, 103>>              \* alg
TxtTyp == <<116, 121, 112>>             \* typ
TxtJWT == <<74, 87, 84>>                \* JWT
TxtNone == <<110, 111, 110, 101>>       \* none
TxtNull == <<110, 117, 108, 108>>       \* null
TxtTrue == <<116, 114, 117, 101>>       \* true
TxtFalse == <<102, 97, 108, 115, 101>>  \* false

Quoted(text) == <<34>> \o text \o <<34>>

RECURSIVE Digits(_)
\* the decimal text of a natural number
Digits(n) == IF n < 10 THEN <<48 + n>> ELSE Digits(n \div 10) \o <<48 + (n % 10)>>

RECURSIVE DigitsValue(_)
DigitsValue(text) ==
    IF Len(text) = 0 THEN 0
    ELSE DigitsValue(SubSeq(text, 1, Len(text) - 1)) * 10 + (text[Len(text)] - 48)

\* JSON.stringify of a value that is not undefined
RECURSIVE JsonStringify(_)
JsonStringify(x) ==
    CASE x.t = "null" -> TxtNull
      [] x.t = "boolean" -> IF x.b THEN TxtTrue ELSE TxtFalse
      [] x.t = "number" -> Digits(x.n)
      [] x.t = "string" -> Quoted(x.v)
      [] x.t = "array" ->
            <<91>> \o Join([i \in 1..Len(x.items) |-> JsonStringify(x.items[i])], <<44>>) \o <<93>>
      [] x.t = "object" ->
            LET a == IF x.alg.t = "undefined" THEN <<>>
                     ELSE <<Quoted(TxtAlg) \o <<58>> \o JsonStringify(x.alg)>>
                y == IF x.typ.t = "undefined" THEN <<>>
                     ELSE <<Quoted(TxtTyp) \o <<58>> \o JsonStringify(x.typ)>>
            IN <<123>> \o Join(a \o y, <<44>>) \o <<125>>
      [] OTHER -> <<123, 125>>

IsPlainStringBody(text) ==
    \A i \in 1..Len(text) : text[i] >= 32 /\ text[i] # 34 /\ text[i] # 92

IsJsonNumber(text) ==
    /\ Len(text) > 0
    /\ All(text, IsDigit)
    /\ (Len(text) = 1 \/ text[1] # 48)

IsJsonString(text) ==
    /\ Len(text) >= 2
    /\ text[1] = 34
    /\ text[Len(text)] = 34
    /\ IsPlainStringBody(SubSeq(text, 2, Len(text) - 1))

\* JSON.parse of a text that holds one scalar
ParseScalar(text) ==
    IF text = TxtNull THEN Ok(Null)
    ELSE IF text = TxtTrue THEN Ok(Bool(TRUE))
    ELSE IF text = TxtFalse THEN Ok(Bool(FALSE))
    ELSE IF IsJsonNumber(text) THEN Ok(Num(DigitsValue(text)))
    ELSE IF IsJsonString(text) THEN Ok(Str(SubSeq(text, 2, Len(text) - 1)))
    ELSE Throw("SyntaxError")

\* one "key":value member of an object, its strings free of ',' and ':'
ParseMember(text) ==
    With(Split(text, 58), LAMBDA kv :
        IF Len(kv) # 2 \/ ~IsJsonString(kv[1]) THEN Throw("SyntaxError")
        ELSE With(ParseScalar(kv[2]), LAMBDA value :
                 IF value.ok
                 THEN Ok([key |-> SubSeq(kv[1], 2, Len(kv[1]) - 1), val |-> value.val])
                 ELSE Throw("SyntaxError")))

RECURSIVE FieldOf(_, _, _)
\* the value of the last member named key, or undefined
FieldOf(members, key, i) ==
    IF i = 0 THEN Undefined
    ELSE IF members[i].val.key = key THEN members[i].val.val
    ELSE FieldOf(members, key, i - 1)

\* JSON.parse on the flat grammar: a scalar, an array of scalars, or an object
\* whose members are scalars
JsonParse(text) ==
    LET inner == SubSeq(text, 2, Len(text) - 1)
        \* the texts between the commas, each parsed by Parse
        Parts(Parse(_)) ==
            With(IF Len(inner) = 0 THEN <<>> ELSE Split(inner, 44), LAMBDA parts :
                [i \in 1..Len(parts) |-> Parse(parts[i])])
    IN IF Len(text) >= 2 /\ text[1] = 91 /\ text[Len(text)] = 93 THEN
           With(Parts(ParseScalar), LAMBDA items :
               IF \A i \in 1..Len(items) : items[i].ok
               THEN Ok(Arr([i \in 1..Len(items) |-> items[i].val]))
               ELSE Throw("SyntaxError"))
       ELSE IF Len(text) >= 2 /\ text[1] = 123 /\ text[Len(text)] = 125 THEN
           With(Parts(ParseMember), LAMBDA members :
               IF \A i \in 1..Len(members) : members[i].ok
               THEN Ok(Obj(FieldOf(members, TxtAlg, Len(members)),
                           FieldOf(members, TxtTyp, Len(members))))
               ELSE Throw("SyntaxError"))
       ELSE ParseScalar(text)

\* tostring.js: a string is itself, a number or a Buffer is its toString(),
\* anything else is JSON.stringify'd
toString(obj) ==
    CASE obj.t = "string" -> Str(obj.v)
      [] obj.t = "number" -> Str(Digits(obj.n))
      [] obj.t = "buffer" -> Str(Utf8Decode(obj.v))
      [] obj.t = "undefined" -> Undefined
      [] OTHER -> Str(JsonStringify(obj))

\* ------------------------------------------------------------------------
\* The platform's crypto primitives (node's crypto module), as toy functions
\* that keep what the code relies on: a keyed digest is a function of digest
\* size, key and message; a signature made with a private key verifies with
\* the key of the same pair and with no other.
\* ------------------------------------------------------------------------
Mix(x, y) == (x * 31 + y * 17 + 7) % 65521

RECURSIVE Fold(_)
\* a number that depends on every byte and on its place
Fold(bytes) ==
    IF Len(bytes) = 0 THEN 1
    ELSE IF Len(bytes) = 1 THEN bytes[1] + 2
    ELSE LET mid == Len(bytes) \div 2
         IN Mix(Fold(SubSeq(bytes, 1, mid)), Fold(SubSeq(bytes, mid + 1, Len(bytes))))

Hash3(seed, a, b) ==
    LET h == Mix(Mix(seed, Fold(a)), Fold(b))
    IN <<h \div 256, h % 256, (h \div 7) % 256>>

\* the bytes a primitive reads from a string, a Buffer or a secret KeyObject
BytesOf(x) ==
    CASE x.t = "string" -> Utf8Encode(x.v)
      [] x.t = "buffer" -> x.v
      [] OTHER -> x.id.bytes

\* crypto.createHmac('sha' + bits, secret).update(thing).digest()
HmacDigest(bits, key, thing) == Hash3(bits, BytesOf(key), BytesOf(thing))

\* A PEM text names a key: '-', R(sa) or E(c), P(rivate) or (p)U(blic), the pair
PemText(fam, side, pair) ==
    <<45, IF fam = "rsa" THEN 82 ELSE 69, IF side = "private" THEN 80 ELSE 85, 48 + pair>>

\* what a key handle holds: an asymmetric key of a pair, or a secret's bytes
KeyId(fam, side, pair) == [fam |-> fam, side |-> side, pair |-> pair, bytes |-> <<>>]
SecretId(bytes) == [fam |-> "oct", side |-> "secret", pair |-> 0, bytes |-> bytes]

ParsePem(text) ==
    IF /\ Len(text) = 4
       /\ text[1] = 45
       /\ text[2] \in {82, 69}
       /\ text[3] \in {80, 85}
       /\ IsDigit(text[4])
    THEN Ok(KeyId(IF text[2] = 82 THEN "rsa" ELSE "ec",
                  IF text[3] = 80 THEN "private" ELSE "public",
                  text[4] - 48))
    ELSE Throw("CryptoError")

\* the key a sign or verify primitive reads from the key material
ParseKey(key) ==
    CASE key.t = "string" -> ParsePem(key.v)
      [] key.t = "buffer" -> ParsePem(key.v)
      [] key.t = "keyobject" /\ key.type \in {"private", "public"} -> Ok(key.id)
      [] OTHER -> Throw("CryptoError")

\* an unsigned big-endian integer without its leading zero bytes, never empty
StripZeros(x) ==
    LET nz == {i \in 1..Len(x) : x[i] # 0}
        first == IF nz = {} THEN Len(x) ELSE CHOOSE i \in nz : \A j \in nz : i <= j
    IN IF Len(x) = 0 THEN x ELSE SubSeq(x, first, Len(x))

DerLen(n) == IF n < 128 THEN <<n>> ELSE <<129, n>>

\* a DER INTEGER: minimal, with a zero byte before a set high bit
DerInt(x) ==
    LET m == StripZeros(x)
        body == IF m[1] >= 128 THEN <<0>> \o m ELSE m
    IN <<2>> \o DerLen(Len(body)) \o body

\* a DER SEQUENCE of the two INTEGERs r, s
DerEncode(r, s) ==
    LET body == DerInt(r) \o DerInt(s)
    IN <<48>> \o DerLen(Len(body)) \o body

\* a DER length field at position i: [len, next] or next = 0 when malformed
DerReadLen(d, i) ==
    IF i > Len(d) THEN [len |-> 0, next |-> 0]
    ELSE IF d[i] < 128 THEN [len |-> d[i], next |-> i + 1]
    ELSE IF d[i] = 129 /\ i + 1 <= Len(d) THEN [len |-> d[i + 1], next |-> i + 2]
    ELSE [len |-> 0, next |-> 0]

\* a DER INTEGER at position i: [val, next] or next = 0 when malformed
DerReadInt(d, i) ==
    IF i > Len(d) \/ d[i] # 2 THEN [val |-> <<>>, next |-> 0]
    ELSE LET l == DerReadLen(d, i + 1)
         IN IF l.next = 0 \/ l.len = 0 \/ l.next + l.len - 1 > Len(d)
            THEN [val |-> <<>>, next |-> 0]
            ELSE [val |-> SubSeq(d, l.next, l.next + l.len - 1), next |-> l.next + l.len]

\* the two INTEGERs of a DER signature, or MalformedSignature
DerDecode(d) ==
    IF Len(d) < 1 \/ d[1] # 48 THEN Throw("MalformedSignature")
    ELSE LET l == DerReadLen(d, 2)
             r == DerReadInt(d, l.next)
             s == DerReadInt(d, r.next)
         IN IF l.next = 0 \/ l.next + l.len - 1 # Len(d) THEN Throw("MalformedSignature")
            ELSE IF r.next = 0 THEN Throw("MalformedSignature")
            ELSE IF s.next = 0 \/ s.next # Len(d) + 1 THEN Throw("MalformedSignature")
            ELSE Ok([r |-> r.val, s |-> s.val])

\* the s component of the toy ECDSA signature of thing under pair with nonce r
EcS(bits, pair, r, thing) == StripZeros(Hash3(bits + pair, r, BytesOf(thing)))

\* crypto.createSign('RSA-SHA' + bits).update(thing).sign(key): the raw
\* signature; pss: the PSS padding is asked for; rnd: the call's entropy
CryptoSign(bits, thing, key, pss, rnd) ==
    LET k == ParseKey(key)
    IN IF ~k.ok THEN k
       ELSE IF k.val.side # "private" THEN Throw("CryptoError")
       ELSE IF k.val.fam = "ec" THEN
            IF pss THEN Throw("CryptoError")
            ELSE Ok(DerEncode(<<rnd>>, EcS(bits, k.val.pair, <<rnd>>, thing)))
       ELSE IF pss THEN Ok(<<rnd>> \o Hash3(bits + k.val.pair + rnd, <<80>>, BytesOf(thing)))
       ELSE Ok(Hash3(bits + k.val.pair, <<82>>, BytesOf(thing)))

\* crypto.createVerify('RSA-SHA' + bits).update(thing).verify(key, sig)
CryptoVerify(bits, thing, key, pss, sig) ==
    LET k == ParseKey(key)
    IN IF ~k.ok THEN k
       ELSE IF k.val.fam = "ec" THEN
            IF pss THEN Throw("CryptoError")
            ELSE With(DerDecode(sig), LAMBDA d :
                     Ok(/\ d.ok
                        /\ StripZeros(d.val.s) =
                               EcS(bits, k.val.pair, StripZeros(d.val.r), thing)))
       ELSE IF pss THEN
            Ok(/\ Len(sig) = 4
               /\ SubSeq(sig, 2, 4) = Hash3(bits + k.val.pair + sig[1], <<80>>, BytesOf(thing)))
       ELSE Ok(sig = Hash3(bits + k.val.pair, <<82>>, BytesOf(thing)))

\* ------------------------------------------------------------------------
\* ecdsa-sig-formatter: DER <-> JOSE (r || s, each of the curve's width)
\* ------------------------------------------------------------------------
ParamBytes(bits) == IF bits = 256 THEN 32 ELSE IF bits = 384 THEN 48 ELSE 66

Zeros(n) == [i \in 1..n |-> 0]

LeftPad(x, width) == Zeros(width - Len(x)) \o x

\* derToJose(signature, 'ES' + bits): base64url DER in, base64url JOSE out
derToJose(signature, bits) ==
    With(DerDecode(Base64Decode(signature)), LAMBDA d :
        LET w == ParamBytes(bits)
            r == StripZeros(d.val.r)
            x == StripZeros(d.val.s)
        IN IF ~d.ok THEN d
           ELSE IF Len(r) > w \/ Len(x) > w THEN Throw("MalformedSignature")
           ELSE Ok(UrlSafe(Base64Encode(LeftPad(r, w) \o LeftPad(x, w)))))

\* joseToDer(signature, 'ES' + bits): base64url JOSE in, the DER bytes out
joseToDer(signature, bits) ==
    IF signature.t # "string" THEN Throw("MalformedSignature")
    ELSE With(Base64Decode(signature.v), LAMBDA j :
             LET w == ParamBytes(bits)
             IN IF Len(j) # 2 * w THEN Throw("MalformedSignature")
                ELSE Ok(DerEncode(SubSeq(j, 1, w), SubSeq(j, w + 1, 2 * w))))

\* ------------------------------------------------------------------------
\* jwa/index.js
\* ------------------------------------------------------------------------
TypeOf(x) ==
    CASE x.t \in {"undefined", "string", "number", "boolean"} -> x.t
      [] OTHER -> "object"

\* key.type, key.asymmetricKeyType, typeof key.export of an object
KeyTypeField(key) == IF key.t = "keyobject" THEN key.type ELSE "undefined"
KeyAsymField(key) == IF key.t = "keyobject" THEN key.asymmetricKeyType ELSE "undefined"
KeyHasExport(key) == key.t = "keyobject" /\ key.export

checkIsPublicKey(key) ==
    IF key.t = "buffer" THEN Ok(Undefined)
    ELSE IF TypeOf(key) = "string" THEN Ok(Undefined)
    ELSE IF ~supportsKeyObjects THEN Throw("InvalidKeyType")
    ELSE IF TypeOf(key) # "object" THEN Throw("InvalidKeyType")
    ELSE IF key.t = "null" THEN Throw("TypeError")
    ELSE IF KeyTypeField(key) = "undefined" THEN Throw("InvalidKeyType")
    ELSE IF KeyAsymField(key) = "undefined" THEN Throw("InvalidKeyType")
    ELSE IF ~KeyHasExport(key) THEN Throw("InvalidKeyType")
    ELSE Ok(Undefined)

checkIsPrivateKey(key) ==
    IF key.t = "buffer" THEN Ok(Undefined)
    ELSE IF TypeOf(key) = "string" THEN Ok(Undefined)
    ELSE IF TypeOf(key) = "object" THEN Ok(Undefined)
    ELSE Throw("InvalidKeyType")

checkIsSecretKey(key) ==
    IF key.t = "buffer" THEN Ok(Undefined)
    ELSE IF TypeOf(key) = "string" THEN Ok(key)
    ELSE IF ~supportsKeyObjects THEN Throw("InvalidKeyType")
    ELSE IF TypeOf(key) # "object" THEN Throw("InvalidKeyType")
    ELSE IF key.t = "null" THEN Throw("TypeError")
    ELSE IF KeyTypeField(key) # "secret" THEN Throw("InvalidKeyType")
    ELSE IF ~KeyHasExport(key) THEN Throw("InvalidKeyType")
    ELSE Ok(Undefined)

fromBase64(base64) == UrlSafe(base64)

toBase64(b64url) ==
    LET padding == 4 - (Len(b64url) % 4)
        padded == IF padding # 4 THEN b64url \o [i \in 1..padding |-> 61] ELSE b64url
    IN [i \in 1..Len(padded) |->
            IF padded[i] = 45 THEN 43 ELSE IF padded[i] = 95 THEN 47 ELSE padded[i]]

bufferOrString(obj) == obj.t = "buffer" \/ TypeOf(obj) = "string"

normalizeInput(thing) == IF ~bufferOrString(thing) THEN Str(JsonStringify(thing)) ELSE thing

\* createHmacSigner(bits)(thing, secret)
HmacSign(bits, thing, key) ==
    LET chk == checkIsSecretKey(key)
    IN IF ~chk.ok THEN chk
       ELSE Ok(Str(fromBase64(Base64Encode(HmacDigest(bits, key, normalizeInput(thing))))))

\* createHmacVerifier(bits)(thing, signature, secret)
HmacVerify(bits, thing, signature, key) ==
    With(HmacSign(bits, thing, key), LAMBDA computedSig :
        IF ~computedSig.ok THEN computedSig
        ELSE IF signature.t # "string" THEN Throw("TypeError")
        ELSE Ok(Bool(Utf8Encode(signature.v) = Utf8Encode(computedSig.val.v))))

\* createKeySigner(bits)(thing, privateKey)
KeySign(bits, thing, key, rnd) ==
    LET chk == checkIsPrivateKey(key)
    IN IF ~chk.ok THEN chk
       ELSE With(CryptoSign(bits, normalizeInput(thing), key, FALSE, rnd), LAMBDA sig :
                IF ~sig.ok THEN sig
                ELSE Ok(Str(fromBase64(Base64Encode(sig.val)))))

\* createKeyVerifier(bits)(thing, signature, publicKey)
KeyVerify(bits, thing, signature, key) ==
    LET chk == checkIsPublicKey(key)
    IN IF ~chk.ok THEN chk
       ELSE IF signature.t # "string" THEN Throw("TypeError")
       ELSE With(CryptoVerify(bits, normalizeInput(thing), key, FALSE,
                              Base64Decode(toBase64(signature.v))), LAMBDA res :
                IF res.ok THEN Ok(Bool(res.val)) ELSE res)

\* createPSSKeySigner(bits)(thing, privateKey)
PSSKeySign(bits, thing, key, rnd) ==
    LET chk == checkIsPrivateKey(key)
    IN IF ~chk.ok THEN chk
       ELSE With(CryptoSign(bits, normalizeInput(thing), key, TRUE, rnd), LAMBDA sig :
                IF ~sig.ok THEN sig
                ELSE Ok(Str(fromBase64(Base64Encode(sig.val)))))

\* createPSSKeyVerifier(bits)(thing, signature, publicKey)
PSSKeyVerify(bits, thing, signature, key) ==
    LET chk == checkIsPublicKey(key)
    IN IF ~chk.ok THEN chk
       ELSE IF signature.t # "string" THEN Throw("TypeError")
       ELSE With(CryptoVerify(bits, normalizeInput(thing), key, TRUE,
                              Base64Decode(toBase64(signature.v))), LAMBDA res :
                IF res.ok THEN Ok(Bool(res.val)) ELSE res)

\* createECDSASigner(bits)(thing, privateKey)
ECDSASign(bits, thing, key, rnd) ==
    With(KeySign(bits, thing, key, rnd), LAMBDA inner :
        IF ~inner.ok THEN inner
        ELSE With(derToJose(inner.val.v, bits), LAMBDA jose :
                 IF jose.ok THEN Ok(Str(jose.val)) ELSE jose))

\* createECDSAVerifer(bits)(thing, signature, publicKey)
ECDSAVerify(bits, thing, signature, key) ==
    With(joseToDer(signature, bits), LAMBDA der :
        IF ~der.ok THEN der
        ELSE KeyVerify(bits, thing, Str(Base64Encode(der.val)), key))

\* createNoneSigner()()
NoneSign == Ok(Str(<<>>))

\* a none verifier that takes a missing signature for an empty one
NoneVerifyFalsy(signature) == Ok(Bool(~Truthy(signature)))

\* createNoneVerifier()(thing, signature)
NoneVerify(signature) == Ok(Bool(signature.t = "string" /\ signature.v = <<>>))

\* algorithm.match(/^(RS|PS|ES|HS)(256|384|512)$|^(none)$/): [algo, bits]
AlgMatch(text) ==
    IF text = TxtNone THEN Ok([algo |-> "none", bits |-> 0])
    ELSE IF /\ Len(text) = 5
            /\ SubSeq(text, 1, 2) \in {<<82, 83>>, <<80, 83>>, <<69, 83>>, <<72, 83>>}
            /\ SubSeq(text, 3, 5) \in {<<50, 53, 54>>, <<51, 56, 52>>, <<53, 49, 50>>}
    THEN Ok([algo |-> CASE text[1] = 82 -> "rs" [] text[1] = 80 -> "ps"
                        [] text[1] = 69 -> "es" [] OTHER -> "hs",
             bits |-> DigitsValue(SubSeq(text, 3, 5))])
    ELSE Throw("InvalidAlgorithm")

\* jwa(algorithm): the family and digest size the pair of capabilities is bound to
jwa(algorithm) ==
    IF algorithm.t # "string" THEN Throw("TypeError")
    ELSE AlgMatch(algorithm.v)

\* jwa(algorithm).sign(thing, key)
jwaSign(algo, thing, key, rnd) ==
    CASE algo.algo = "hs" -> HmacSign(algo.bits, thing, key)
      [] algo.algo = "rs" -> KeySign(algo.bits, thing, key, rnd)
      [] algo.algo = "ps" -> PSSKeySign(algo.bits, thing, key, rnd)
      [] algo.algo = "es" -> ECDSASign(algo.bits, thing, key, rnd)
      [] OTHER -> NoneSign

\* jwa(algorithm).verify(thing, signature, key)
jwaVerify(algo, thing, signature, key) ==
    CASE algo.algo = "hs" -> HmacVerify(algo.bits, thing, signature, key)
      [] algo.algo = "rs" -> KeyVerify(algo.bits, thing, signature, key)
      [] algo.algo = "ps" -> PSSKeyVerify(algo.bits, thing, signature, key)
      [] algo.algo = "es" -> ECDSAVerify(algo.bits, thing, signature, key)
      [] OTHER -> NoneVerify(signature)

\* ------------------------------------------------------------------------
\* sign-stream.js: jwsSecuredInput, jwsSign
\* ------------------------------------------------------------------------
\* opts of jwsSign: {header, payload, secret, privateKey, encoding}
SignOpts(header, body, sec, privateKey, encoding) ==
    [header |-> header, payload |-> body, secret |-> sec, privateKey |-> privateKey,
     encoding |-> encoding]

\* x.alg, x.typ of any value: a TypeError on undefined and null
Prop(x, name) ==
    IF x.t \in {"undefined", "null"} THEN Throw("TypeError")
    ELSE IF x.t = "object" THEN Ok(IF name = "alg" THEN x.alg ELSE x.typ)
    ELSE Ok(Undefined)

jwsSecuredInput(header, body, encoding) ==
    LET enc == IF encoding = "undefined" THEN "utf8" ELSE encoding
    IN With(toString(header), LAMBDA h :
       With(toString(body), LAMBDA p :
           IF h.t # "string" \/ p.t # "string" THEN Throw("TypeError")
           ELSE Ok(Str(base64url(h.v, "binary") \o Dot \o base64url(p.v, enc)))))

jwsSign(opts, rnd) ==
    LET secretOrKey == OrElse(opts.secret, opts.privateKey)
        alg == Prop(opts.header, "alg")
    IN With(IF alg.ok THEN jwa(alg.val) ELSE alg, LAMBDA algo :
       IF ~algo.ok THEN algo
       ELSE With(jwsSecuredInput(opts.header, opts.payload, opts.encoding),
                 LAMBDA securedInput :
            IF ~securedInput.ok THEN securedInput
            ELSE With(jwaSign(algo.val, securedInput.val, secretOrKey, rnd),
                      LAMBDA signature :
                 IF ~signature.ok THEN signature
                 ELSE Ok(Str(securedInput.val.v \o Dot \o signature.val.v)))))

\* ------------------------------------------------------------------------
\* verify-stream.js: isValidJws, jwsVerify, jwsDecode
\* ------------------------------------------------------------------------
\* JWS_REGEX.test(text)
JwsRegexTest(text) ==
    LET parts == Split(text, 46)
    IN /\ Len(parts) = 3
       /\ Len(parts[1]) > 0 /\ All(parts[1], IsB64UrlChar)
       /\ Len(parts[2]) > 0 /\ All(parts[2], IsB64UrlChar)
       /\ All(parts[3], IsB64UrlChar)

safeJsonParse(text) ==
    With(JsonParse(text), LAMBDA parsed : IF parsed.ok THEN parsed.val ELSE Undefined)

headerFromJWS(jwsSig) ==
    safeJsonParse(BinaryDecode(Base64Decode(SplitLimit(jwsSig, 46, 1)[1])))

securedInputFromJWS(jwsSig) == Join(SplitLimit(jwsSig, 46, 2), Dot)

signatureFromJWS(jwsSig) ==
    With(Split(jwsSig, 46), LAMBDA parts : IF Len(parts) >= 3 THEN Str(parts[3]) ELSE Undefined)

payloadFromJWS(jwsSig) == Utf8Decode(Base64Decode(Split(jwsSig, 46)[2]))

isValidJws(text) == JwsRegexTest(text) /\ Truthy(headerFromJWS(text))

\* jwsVerify falling back on the header's alg when the caller names none
jwsVerifyHeaderAlg(jwsSig, algorithm, secretOrKey) ==
    With(toString(jwsSig), LAMBDA token :
        IF token.t # "string" THEN Throw("TypeError")
        ELSE With(OrElse(algorithm,
                         Prop(OrElse(headerFromJWS(token.v), Obj(Undefined, Undefined)),
                              "alg").val),
                  LAMBDA named :
             LET signature == signatureFromJWS(token.v)
                 securedInput == securedInputFromJWS(token.v)
                 algo == jwa(named)
             IN IF ~Truthy(named) THEN Throw("MissingAlgorithm")
                ELSE IF ~algo.ok THEN algo
                ELSE jwaVerify(algo.val, Str(securedInput), signature, secretOrKey)))

jwsVerify(jwsSig, algorithm, secretOrKey) ==
    IF ~Truthy(algorithm) THEN Throw("MissingAlgorithm")
    ELSE With(toString(jwsSig), LAMBDA token :
             IF token.t # "string" THEN Throw("TypeError")
             ELSE LET signature == signatureFromJWS(token.v)
                      securedInput == securedInputFromJWS(token.v)
                      algo == jwa(algorithm)
                  IN IF ~algo.ok THEN algo
                     ELSE jwaVerify(algo.val, Str(securedInput), signature, secretOrKey))

Decoded(header, body, signature) ==
    [t |-> "decoded", header |-> header, payload |-> body, signature |-> signature]

jwsDecode(jwsSig, json) ==
    With(toString(jwsSig), LAMBDA token :
        IF token.t # "string" THEN Throw("TypeError")
        ELSE IF ~isValidJws(token.v) THEN Ok(Null)
        ELSE With(headerFromJWS(token.v), LAMBDA header :
             IF ~Truthy(header) THEN Ok(Null)
             ELSE With(payloadFromJWS(token.v), LAMBDA raw :
                  IF Prop(header, "typ").val = Str(TxtJWT) \/ json
                  THEN With(JsonParse(raw), LAMBDA parsed :
                           IF parsed.ok
                           THEN Ok(Decoded(header, parsed.val, signatureFromJWS(token.v)))
                           ELSE Throw("SyntaxError"))
                  ELSE Ok(Decoded(header, Str(raw), signatureFromJWS(token.v))))))

\* ------------------------------------------------------------------------
\* The inputs the model draws from
\* ------------------------------------------------------------------------
Families == {<<72, 83>>, <<82, 83>>, <<80, 83>>, <<69, 83>>}        \* HS RS PS ES
Sizes == {<<50, 53, 54>>, <<51, 56, 52>>, <<53, 49, 50>>}            \* 256 384 512
\* the closed set of algorithm identifiers
AlgNames == {f \o b : f \in Families, b \in Sizes} \cup {TxtNone}
TxtHS256 == <<72, 83, 50, 53, 54>>
TxtES256 == <<69, 83, 50, 53, 54>>
\* hs256, HS257 and the empty string: not identifiers
BadAlgNames == {<<104, 115, 50, 53, 54>>, <<72, 83, 50, 53, 55>>, <<>>}

\* what a caller may pass where an algorithm identifier is expected
AlgInputs == {Str(a) : a \in AlgNames \cup BadAlgNames} \cup {Undefined}

\* the entropy of one signing call (PSS salt, ECDSA nonce)
Entropy == {5, 200}

Pairs == {1, 2}

TxtK == <<107>>                          \* k
TxtWrong == <<119, 114>>                 \* wr

SecretKeys ==
    {Str(TxtK), Str(TxtWrong), Str(<<>>), Buf(<<1, 200>>), Buf(<<>>),
     KeyObj("secret", "undefined", TRUE, SecretId(<<9, 9>>))}

AsymKeys ==
    {Str(PemText("rsa", "private", 1)), Str(PemText("rsa", "public", 1)),
     Str(PemText("rsa", "public", 2)),
     Buf(PemText("ec", "private", 1)), Str(PemText("ec", "public", 2)),
     KeyObj("public", "ec", TRUE, KeyId("ec", "public", 1)),
     KeyObj("private", "rsa", TRUE, KeyId("rsa", "private", 2))}

\* shapes no family accepts: undefined, a number, null, a handle without export
OddKeys == {Undefined, Num(7), Null, KeyObj("public", "rsa", FALSE, KeyId("rsa", "public", 1))}

Keys == SecretKeys \cup AsymKeys \cup OddKeys

TxtEmptyObj == <<123, 125>>              \* {}
TxtAbc == <<97, 98, 99>>                 \* abc

Headers ==
    {Obj(a, Undefined) : a \in AlgInputs} \cup {Obj(Str(TxtHS256), Str(TxtJWT)), Undefined}

Payloads == {Str(TxtEmptyObj), Buf(TxtAbc)}

\* a compact token whose header and payload segments encode the two texts
Token(headerText, payloadText, sig) ==
    base64url(headerText, "binary") \o Dot \o base64url(payloadText, "utf8") \o Dot \o sig

\* header texts that are JSON but no object, or no JSON at all
OddHeaderTexts ==
    {<<49>>, <<48>>, <<91, 93>>, Quoted(<<97>>), Quoted(<<>>), TxtTrue, TxtFalse, TxtNull,
     <<123>>, <<>>}

TxtSig == <<65, 65, 65, 65>>             \* AAAA

Tokens ==
    {Token(h, TxtEmptyObj, <<>>) : h \in OddHeaderTexts}
    \cup {Token(JsonStringify(Obj(Str(a), Undefined)), TxtEmptyObj, g) :
            a \in {TxtNone, TxtHS256, TxtES256}, g \in {<<>>, TxtSig}}
    \cup {Token(JsonStringify(Obj(Undefined, Str(TxtJWT))), p, <<>>) : p \in {TxtEmptyObj, TxtAbc}}
    \cup {base64url(TxtEmptyObj, "binary") \o Dot \o base64url(TxtEmptyObj, "utf8"),
          Token(TxtEmptyObj, TxtEmptyObj, <<>>) \o Dot \o TxtSig,
          Token(TxtEmptyObj, TxtEmptyObj, <<33>>),
          <<>>}

\* ------------------------------------------------------------------------
\* The synchronous API: one call at a time; call holds it and its result
\* ------------------------------------------------------------------------
Idle == [op |-> "idle"]

NoStream == [kind |-> "none"]

ApiInit ==
    /\ supportsKeyObjects \in BOOLEAN
    /\ call = Idle
    /\ secret = NoStream
    /\ payload = NoStream
    /\ stream = NoStream
    /\ twin = NoStream

\* jws.sign({header, payload, secret | privateKey})
ApiSign ==
    /\ call.op = "idle"
    /\ \E header \in Headers, body \in Payloads, key \in Keys, asSecret \in BOOLEAN,
          rnd \in Entropy :
          LET opts == IF asSecret
                      THEN SignOpts(header, body, key, Undefined, "undefined")
                      ELSE SignOpts(header, body, Undefined, key, "undefined")
          IN call' = [op |-> "sign", header |-> header, payload |-> body, key |-> key,
                      res |-> jwsSign(opts, rnd)]
    /\ UNCHANGED <<supportsKeyObjects, secret, payload, stream, twin>>

\* jws.verify(token, header.alg, key) on the token the last jws.sign returned
ApiVerifySigned ==
    /\ call.op = "sign"
    /\ call.res.ok
    /\ \E key \in Keys :
          call' = [op |-> "roundtrip", header |-> call.header, payload |-> call.payload,
                   key |-> call.key, token |-> call.res.val, algorithm |-> call.header.alg,
                   vkey |-> key,
                   res |-> jwsVerify(call.res.val, call.header.alg, key)]
    /\ UNCHANGED <<supportsKeyObjects, secret, payload, stream, twin>>

\* jws.verify(token, algorithm, key)
ApiVerify ==
    /\ call.op = "idle"
    /\ \E token \in Tokens, algorithm \in AlgInputs, key \in Keys :
          call' = [op |-> "verify", token |-> Str(token), algorithm |-> algorithm, vkey |-> key,
                   res |-> jwsVerify(Str(token), algorithm, key)]
    /\ UNCHANGED <<supportsKeyObjects, secret, payload, stream, twin>>

\* jws.decode(token, {json}) and jws.isValid(token)
ApiDecode ==
    /\ call.op = "idle"
    /\ \E token \in Tokens, json \in BOOLEAN :
          call' = [op |-> "decode", token |-> Str(token), json |-> json,
                   res |-> jwsDecode(Str(token), json), valid |-> isValidJws(token)]
    /\ UNCHANGED <<supportsKeyObjects, secret, payload, stream, twin>>

\* the call returns to its caller
ApiReturn ==
    /\ call.op # "idle"
    /\ call' = Idle
    /\ UNCHANGED <<supportsKeyObjects, secret, payload, stream, twin>>

ApiNext == ApiSign \/ ApiVerifySigned \/ ApiVerify \/ ApiDecode \/ ApiReturn

ApiSpec == ApiInit /\ [][ApiNext]_vars

\* ------------------------------------------------------------------------
\* Properties of the synchronous API
\* ------------------------------------------------------------------------
\* the parts of a token as the claims name them
PartsOf(token) == Split(token.v, 46)
SignaturePart(token) == IF Len(PartsOf(token)) >= 3 THEN Str(PartsOf(token)[3]) ELSE Undefined
SecuredPart(token) ==
    IF Len(PartsOf(token)) = 1 THEN Str(PartsOf(token)[1])
    ELSE Str(PartsOf(token)[1] \o Dot \o PartsOf(token)[2])

IsAlgName(algorithm) == algorithm.t = "string" /\ algorithm.v \in AlgNames
FamilyOf(algorithm) == jwa(algorithm).val.algo

\* the alg field of the token's header, when the header decodes to an object
HeaderAlgOf(token) ==
    LET h == headerFromJWS(token.v)
    IN IF h.t = "object" THEN h.alg ELSE Undefined

\* C6: verify fails with MissingAlgorithm whenever no algorithm identifier is
\* supplied, whatever the token; when one of the closed set is supplied the
\* result is that of the capability bound to the caller's identifier, applied
\* to the token's positional segments, and a token whose header says "none"
\* with an empty signature is not accepted under any other identifier.
C6_VerifyPinsAlgorithm ==
    call.op = "verify" =>
        /\ ~Truthy(call.algorithm) => call.res = Throw("MissingAlgorithm")
        /\ Truthy(call.algorithm) => call.res.err # "MissingAlgorithm"
        /\ IsAlgName(call.algorithm) =>
              call.res = jwaVerify(jwa(call.algorithm).val, SecuredPart(call.token),
                                   SignaturePart(call.token), call.vkey)
        /\ (/\ IsAlgName(call.algorithm)
            /\ call.algorithm # Str(TxtNone)
            /\ HeaderAlgOf(call.token) = Str(TxtNone)
            /\ SignaturePart(call.token) = Str(<<>>))
           => ~(call.res.ok /\ call.res.val.b)

\* a token whose header says "none", unsigned, is refused under HS256
C6_Witness ==
    /\ call.op = "verify"
    /\ call.algorithm = Str(TxtHS256)
    /\ call.vkey = Str(TxtK)
    /\ HeaderAlgOf(call.token) = Str(TxtNone)
    /\ SignaturePart(call.token) = Str(<<>>)
    /\ call.res = Ok(Bool(FALSE))

\* a key of a shape the family's verify accepts, that the platform can read
LegalVerifyKey(algorithm, key) ==
    LET fam == FamilyOf(algorithm)
        handle == key.t = "keyobject" /\ supportsKeyObjects /\ key.export
    IN CASE fam = "none" -> TRUE
         [] fam = "hs" -> key.t \in {"string", "buffer"} \/ (handle /\ key.type = "secret")
         [] OTHER ->
              /\ key.t \in {"string", "buffer"} \/ (handle /\ key.type \in {"public", "private"})
              /\ ParseKey(key).ok
              /\ ParseKey(key).val.fam = (IF fam = "es" THEN "ec" ELSE "rsa")

\* C7: for every algorithm identifier of the closed set and every key of a
\* shape legal for the family's verify, verify never throws, whatever the
\* secured input and the signature text are.
C7_VerifyNeverThrows ==
    (/\ call.op \in {"verify", "roundtrip"}
     /\ IsAlgName(call.algorithm)
     /\ LegalVerifyKey(call.algorithm, call.vkey))
    => call.res.ok

\* a key of a shape the family's sign accepts, that the platform can sign with
LegalSignKey(algorithm, key) ==
    LET fam == FamilyOf(algorithm)
    IN CASE fam = "none" -> TRUE
         [] fam = "hs" ->
              \/ key.t \in {"string", "buffer"}
              \/ key.t = "keyobject" /\ supportsKeyObjects /\ key.export /\ key.type = "secret"
         [] OTHER ->
              /\ key.t \in {"string", "buffer", "keyobject"}
              /\ ParseKey(key).ok
              /\ ParseKey(key).val.side = "private"
              /\ ParseKey(key).val.fam = (IF fam = "es" THEN "ec" ELSE "rsa")

\* the verify key that matches a sign key: the same secret, the same pair
Matching(algorithm, key, vkey) ==
    LET fam == FamilyOf(algorithm)
    IN CASE fam = "none" -> TRUE
         [] fam = "hs" -> vkey = key
         [] OTHER -> /\ LegalVerifyKey(algorithm, vkey)
                     /\ ParseKey(vkey).val.pair = ParseKey(key).val.pair

\* C8: for every algorithm of the closed set, every header naming it, every
\* payload and every matching key, encode succeeds and verify of its token
\* under the same algorithm and the matching key returns true.
C8_RoundTrip ==
    /\ (/\ call.op = "sign"
        /\ call.header.t = "object"
        /\ IsAlgName(call.header.alg)
        /\ LegalSignKey(call.header.alg, call.key))
       => call.res.ok
    /\ (/\ call.op = "roundtrip"
        /\ LegalSignKey(call.algorithm, call.key)
        /\ Matching(call.algorithm, call.key, call.vkey))
       => call.res = Ok(Bool(TRUE))

\* the round trip for every matching key but the empty string
C8_RoundTripNonEmptyKey ==
    /\ (/\ call.op = "sign"
        /\ call.header.t = "object"
        /\ IsAlgName(call.header.alg)
        /\ LegalSignKey(call.header.alg, call.key)
        /\ call.key # Str(<<>>))
       => call.res.ok
    /\ (/\ call.op = "roundtrip"
        /\ LegalSignKey(call.algorithm, call.key)
        /\ Matching(call.algorithm, call.key, call.vkey))
       => call.res = Ok(Bool(TRUE))

\* C9: for the none family sign yields the empty signature for every secured
\* input and every key, no key shape raising an error, and verify returns
\* true exactly when the supplied signature segment is the empty string,
\* whatever the key is.
C9_NoneFamily ==
    /\ (/\ call.op = "sign"
        /\ call.header.t = "object"
        /\ call.header.alg = Str(TxtNone))
       => /\ call.res.ok
          /\ Len(PartsOf(call.res.val)) = 3
          /\ SignaturePart(call.res.val) = Str(<<>>)
    /\ (/\ call.op \in {"verify", "roundtrip"}
        /\ call.algorithm = Str(TxtNone))
       => call.res = Ok(Bool(SignaturePart(call.token) = Str(<<>>)))

\* a token signed with no key at all verifies under a number as the key
C9_Witness ==
    /\ call.op = "roundtrip"
    /\ call.algorithm = Str(TxtNone)
    /\ call.key = Undefined
    /\ call.vkey = Num(7)
    /\ call.res = Ok(Bool(TRUE))

\* the structural grammar of a compact token: exactly two '.', every segment
\* in [A-Za-z0-9_-]*
TokenGrammar(token) ==
    /\ Len(PartsOf(token)) = 3
    /\ \A i \in 1..3 : All(PartsOf(token)[i], IsB64UrlChar)

\* C10: decode returns null and the validity check returns false, raising
\* nothing, for every token that fails the structural grammar or whose header
\* segment does not decode to a JSON object.
C10_DecodeNeedsObjectHeader ==
    (/\ call.op = "decode"
     /\ ~TokenGrammar(call.token) \/ headerFromJWS(call.token.v).t # "object")
    => /\ call.res = Ok(Null)
       /\ ~call.valid

\* what the code does instead: null exactly for the tokens its pattern
\* rejects or whose header decodes to a falsy value
C10_DecodeNeedsTruthyHeader ==
    (/\ call.op = "decode"
     /\ ~JwsRegexTest(call.token.v) \/ ~Truthy(headerFromJWS(call.token.v)))
    => /\ call.res = Ok(Null)
       /\ ~call.valid

\* ------------------------------------------------------------------------
\* data-stream.js: the single-shot accumulator
\* ------------------------------------------------------------------------
MaxWrites == 2

\* new DataStream(data): with data the accumulator is born closed and its
\* close event is still to be delivered; without, it is open and empty.
\* closing: the close event is emitted and not yet delivered to the listener
\* (at once when end() emits it, on a later tick when the constructor does).
DataStream(data) ==
    IF ~Truthy(data)
    THEN [kind |-> "data", buffer |-> <<>>, writable |-> TRUE, closing |-> FALSE, writes |-> 0]
    ELSE [kind |-> "data", buffer |-> BytesOf(data), writable |-> FALSE, closing |-> TRUE,
          writes |-> 0]

\* DataStream.prototype.write(data)
write(acc, data) == [acc EXCEPT !.buffer = @ \o data, !.writes = @ + 1]

\* DataStream.prototype.end(): open -> closed, the closure reported as an event
end(acc) == [acc EXCEPT !.writable = FALSE, !.closing = TRUE]

\* the close event reaches its (once) listener
delivered(acc) == [acc EXCEPT !.closing = FALSE]

\* ------------------------------------------------------------------------
\* SignStream and VerifyStream
\* ------------------------------------------------------------------------
Event(name, arg, obj) == [name |-> name, arg |-> arg, obj |-> obj]

ErrorValue(name) == [t |-> "error", name |-> name]

\* the instance after its constructor: readable, nothing emitted.
\* listening: the consumer has registered an 'error' listener.
\* finalized, outcome, by, escaped and late record what happened to it: how
\* often sign() / verify() ran, how the last run went, from which handler,
\* the exception that left the handler, and the closes delivered after the
\* instance was no longer readable.
NewStream(kind, header, algorithm, listening) ==
    [kind |-> kind, header |-> header, algorithm |-> algorithm, encoding |-> "undefined",
     listening |-> listening, readable |-> TRUE, events |-> <<>>, finalized |-> 0,
     outcome |-> "none", by |-> "none", escaped |-> "none", late |-> 0]

SignStream(header, listening) == NewStream("sign", header, Undefined, listening)

VerifyStream(algorithm, listening) == NewStream("verify", Undefined, algorithm, listening)

\* emit('done', ...), emit('data', ...), emit('end'), readable = false
Succeed(self, result, obj) ==
    [self EXCEPT !.events = @ \o <<Event("done", result, obj),
                                    Event("data", result, Undefined),
                                    Event("end", Undefined, Undefined)>>,
                 !.readable = FALSE,
                 !.finalized = @ + 1,
                 !.outcome = "done"]

\* the catch block: readable = false, emit('error', e), emit('close');
\* emit('error') with no listener registered throws e instead
Fail(self, e) ==
    IF self.listening
    THEN [self EXCEPT !.readable = FALSE,
                      !.events = @ \o <<Event("error", ErrorValue(e), Undefined),
                                        Event("close", Undefined, Undefined)>>,
                      !.finalized = @ + 1,
                      !.outcome = "failed"]
    ELSE [self EXCEPT !.readable = FALSE,
                      !.finalized = @ + 1,
                      !.outcome = "failed",
                      !.escaped = e]

\* sign() without its try / catch: the exception leaves the handler
signUncaught(self, sec, pay, rnd) ==
    With(jwsSign(SignOpts(self.header, Buf(pay.buffer), Buf(sec.buffer), Undefined,
                          self.encoding), rnd),
         LAMBDA signature :
             IF signature.ok
             THEN Succeed(self, signature.val, Undefined)
             ELSE [self EXCEPT !.finalized = @ + 1, !.outcome = "failed",
                               !.escaped = signature.err])

\* SignStream.prototype.sign
sign(self, sec, pay, rnd) ==
    With(jwsSign(SignOpts(self.header, Buf(pay.buffer), Buf(sec.buffer), Undefined,
                          self.encoding), rnd),
         LAMBDA signature :
             IF signature.ok
             THEN Succeed(self, signature.val, Undefined)
             ELSE Fail(self, signature.err))

\* VerifyStream.prototype.verify
verify(self, sec, sig) ==
    With(jwsVerify(Buf(sig.buffer), self.algorithm, Buf(sec.buffer)), LAMBDA valid :
        IF ~valid.ok THEN Fail(self, valid.err)
        ELSE With(jwsDecode(Buf(sig.buffer), FALSE), LAMBDA obj :
                 IF ~obj.ok THEN Fail(self, obj.err)
                 ELSE Succeed(self, valid.val, obj.val)))

\* this.sign() or this.verify(), as the instance is a SignStream or a VerifyStream
Finalize(self, sec, pay, rnd) ==
    IF self.kind = "sign" THEN sign(self, sec, pay, rnd) ELSE verify(self, sec, pay)

\* a close delivered to an instance that is no longer readable
Late(self) == IF self.readable THEN self ELSE [self EXCEPT !.late = @ + 1]

\* the key's close listener without the test of this.readable
onSecretCloseUnguarded(self, sec, pay, rnd) ==
    IF ~pay.writable
    THEN [Finalize(self, sec, pay, rnd) EXCEPT !.by = "secret"]
    ELSE self

\* the key's close listener without the test of the other accumulator
onSecretCloseEager(self, sec, pay, rnd) ==
    IF self.readable
    THEN [Finalize(self, sec, pay, rnd) EXCEPT !.by = "secret"]
    ELSE Late(self)

\* the key's close listener handing over the two buffers in the other order
onSecretCloseSwapped(self, sec, pay, rnd) ==
    IF ~pay.writable /\ self.readable
    THEN [Finalize(self, pay, sec, rnd) EXCEPT !.by = "secret"]
    ELSE Late(self)

\* the key's close listener testing its own accumulator instead of the other
onSecretCloseOwn(self, sec, pay, rnd) ==
    IF sec.writable /\ self.readable
    THEN [Finalize(self, sec, pay, rnd) EXCEPT !.by = "secret"]
    ELSE Late(self)

\* this.secret.once('close', ...)
onSecretClose(self, sec, pay, rnd) ==
    IF ~pay.writable /\ self.readable
    THEN [Finalize(self, sec, pay, rnd) EXCEPT !.by = "secret"]
    ELSE Late(self)

\* this.payload.once('close', ...), this.signature.once('close', ...)
onPayloadClose(self, sec, pay, rnd) ==
    IF ~sec.writable /\ self.readable
    THEN [Finalize(self, sec, pay, rnd) EXCEPT !.by = "payload"]
    ELSE Late(self)

\* ------------------------------------------------------------------------
\* One streaming instance and the producers of its two accumulators
\* ------------------------------------------------------------------------
TxtRS256 == <<82, 83, 50, 53, 54>>
TxtPS256 == <<80, 83, 50, 53, 54>>
TxtBad == <<72, 83, 50, 53, 55>>         \* HS257

StreamAlgs == {Str(TxtHS256), Str(TxtES256), Str(TxtNone), Str(TxtBad), Undefined}

StreamHeaders == {Obj(Str(TxtHS256), Undefined), Obj(Str(TxtES256), Undefined),
                  Obj(Str(TxtNone), Undefined), Obj(Str(TxtBad), Undefined), Undefined}

\* what a producer writes to the key accumulator
SecretChunks == {TxtK, PemText("ec", "private", 1)}

\* what a producer writes to the payload accumulator of a SignStream
PayloadChunks == {TxtEmptyObj, TxtAbc}

\* the HS256 token of payload {} under the key k
SampleToken ==
    jwsSign(SignOpts(Obj(Str(TxtHS256), Undefined), Str(TxtEmptyObj), Str(TxtK), Undefined,
                     "undefined"), 5).val

\* what a producer writes to the signature accumulator of a VerifyStream:
\* the secured input of the sample token, its signature segment, another one
SignatureChunks ==
    {SecuredPart(SampleToken).v, Dot \o SignaturePart(SampleToken).v, Dot \o TxtSig}

ChunksOf(self) == IF self.kind = "sign" THEN PayloadChunks ELSE SignatureChunks

\* a SignStream or a VerifyStream is constructed, its inputs given to the
\* constructor or left to be written
Init ==
    /\ supportsKeyObjects = TRUE
    /\ call = Idle
    /\ twin = NoStream
    /\ \E listening \in BOOLEAN :
          \/ \E header \in StreamHeaders : stream = SignStream(header, listening)
          \/ \E algorithm \in StreamAlgs : stream = VerifyStream(algorithm, listening)
    /\ \E data \in {Undefined, Str(TxtK)} : secret = DataStream(data)
    /\ \E data \in {Undefined, Str(IF stream.kind = "sign" THEN TxtEmptyObj
                                                          ELSE SampleToken.v)} :
          payload = DataStream(data)

\* stream.secret.write(chunk)
SecretWrite ==
    /\ secret.writable
    /\ secret.writes < MaxWrites
    /\ \E chunk \in SecretChunks : secret' = write(secret, chunk)
    /\ UNCHANGED <<supportsKeyObjects, call, payload, stream, twin>>

\* stream.payload.write(chunk), stream.signature.write(chunk)
PayloadWrite ==
    /\ payload.writable
    /\ payload.writes < MaxWrites
    /\ \E chunk \in ChunksOf(stream) : payload' = write(payload, chunk)
    /\ UNCHANGED <<supportsKeyObjects, call, secret, stream, twin>>

\* stream.secret.end()
SecretEnd ==
    /\ secret.writable
    /\ secret' = end(secret)
    /\ UNCHANGED <<supportsKeyObjects, call, payload, stream, twin>>

\* stream.payload.end(), stream.signature.end()
PayloadEnd ==
    /\ payload.writable
    /\ payload' = end(payload)
    /\ UNCHANGED <<supportsKeyObjects, call, secret, stream, twin>>

\* the close event of the key accumulator runs its listener
SecretClose ==
    /\ secret.closing
    /\ secret' = delivered(secret)
    /\ \E rnd \in Entropy : stream' = onSecretClose(stream, secret, payload, rnd)
    /\ UNCHANGED <<supportsKeyObjects, call, payload, twin>>

\* the close event of the payload / signature accumulator runs its listener
PayloadClose ==
    /\ payload.closing
    /\ payload' = delivered(payload)
    /\ \E rnd \in Entropy : stream' = onPayloadClose(stream, secret, payload, rnd)
    /\ UNCHANGED <<supportsKeyObjects, call, secret, twin>>

Next ==
    \/ SecretWrite
    \/ PayloadWrite
    \/ SecretEnd
    \/ PayloadEnd
    \/ SecretClose
    \/ PayloadClose

Spec == Init /\ [][Next]_vars

\* what the event loop guarantees of SecretClose and of PayloadClose: a close
\* event that was emitted is delivered. The steps of Next that deliver one
\* are the SecretClose and the PayloadClose steps, enabled when it is pending.
SecretDelivered == secret.closing /\ secret' = delivered(secret)

PayloadDelivered == payload.closing /\ payload' = delivered(payload)

FairSpec == Spec /\ WF_secret(SecretDelivered) /\ WF_payload(PayloadDelivered)

\* ------------------------------------------------------------------------
\* Properties of one streaming instance
\* ------------------------------------------------------------------------
EventNames(self) == [i \in 1..Len(self.events) |-> self.events[i].name]

BothClosed == ~secret.writable /\ ~payload.writable

BothDelivered == BothClosed /\ ~secret.closing /\ ~payload.closing

\* C1: the close handlers run sign() / verify() at most once, and what the
\* instance has emitted is nothing, or done data end, or error close: the
\* close that arrives when readable is false emits nothing more
C1_FinalizeAtMostOnce ==
    /\ stream.finalized <= 1
    /\ EventNames(stream) \in {<<>>, <<"done", "data", "end">>, <<"error", "close">>}
    /\ stream.late > 0 => stream.finalized = 1

\* both closes were delivered: one finalized, the other found readable false
C1_Witness ==
    /\ BothDelivered
    /\ stream.finalized = 1
    /\ stream.late = 1
    /\ stream.events # <<>>

\* C2: once both accumulators have closed the instance leaves WAITING
C2_BothClosedFinalizes == BothClosed ~> (~stream.readable /\ stream.finalized > 0)

\* the payload's close was emitted while the key's close was still on its
\* way, and the key's listener finalized
C2_Witness ==
    /\ BothClosed
    /\ payload.closing
    /\ ~secret.closing
    /\ stream.by = "secret"
    /\ ~stream.readable

\* C3: nothing is emitted and nothing finalized while an accumulator is
\* open: with one side open the instance is readable and silent
C3_NoFinalizeWhileOpen ==
    (secret.writable \/ payload.writable) =>
        /\ stream.readable
        /\ stream.events = <<>>
        /\ stream.finalized = 0
        /\ stream.escaped = "none"

\* one side closed and its close delivered, the other written to and open
C3_Witness ==
    /\ ~secret.writable
    /\ ~secret.closing
    /\ payload.writable
    /\ payload.writes > 0
    /\ stream.readable

MaxTwinWrites == 1

Instances == {"a", "b"}

Instance(header) ==
    [secret |-> DataStream(Undefined), payload |-> DataStream(Undefined),
     stream |-> SignStream(header, TRUE)]

\* the key a header of each family is signed with
TwinKeyOf(header) ==
    CASE header.alg = Str(TxtRS256) -> PemText("rsa", "private", 1)
      [] header.alg = Str(TxtPS256) -> PemText("rsa", "private", 1)
      [] header.alg = Str(TxtES256) -> PemText("ec", "private", 1)
      [] OTHER -> TxtK

TwinHeaders ==
    {Obj(Str(a), Undefined) : a \in {TxtHS256, TxtRS256, TxtPS256, TxtES256, TxtNone}}

TwinInit ==
    /\ supportsKeyObjects = TRUE
    /\ call = Idle
    /\ secret = NoStream
    /\ payload = NoStream
    /\ stream = NoStream
    /\ \E header \in TwinHeaders :
          twin = [kind |-> "twin", key |-> TwinKeyOf(header), body |-> TxtEmptyObj,
                  a |-> Instance(header), b |-> Instance(header)]

\* instance i: stream.secret.write(key)
TwinSecretWrite(i) ==
    /\ twin[i].secret.writable
    /\ twin[i].secret.writes < MaxTwinWrites
    /\ twin' = [twin EXCEPT ![i].secret = write(@, twin.key)]
    /\ UNCHANGED <<supportsKeyObjects, call, secret, payload, stream>>

\* instance i: stream.payload.write(payload)
TwinPayloadWrite(i) ==
    /\ twin[i].payload.writable
    /\ twin[i].payload.writes < MaxTwinWrites
    /\ twin' = [twin EXCEPT ![i].payload = write(@, twin.body)]
    /\ UNCHANGED <<supportsKeyObjects, call, secret, payload, stream>>

\* instance i: stream.secret.end()
TwinSecretEnd(i) ==
    /\ twin[i].secret.writable
    /\ twin' = [twin EXCEPT ![i].secret = end(@)]
    /\ UNCHANGED <<supportsKeyObjects, call, secret, payload, stream>>

\* instance i: stream.payload.end()
TwinPayloadEnd(i) ==
    /\ twin[i].payload.writable
    /\ twin' = [twin EXCEPT ![i].payload = end(@)]
    /\ UNCHANGED <<supportsKeyObjects, call, secret, payload, stream>>

\* instance i: the close event of the key accumulator runs its listener
TwinSecretClose(i) ==
    /\ twin[i].secret.closing
    /\ \E rnd \in Entropy :
          twin' = [twin EXCEPT ![i].secret = delivered(@),
                               ![i].stream = onSecretClose(@, twin[i].secret,
                                                           twin[i].payload, rnd)]
    /\ UNCHANGED <<supportsKeyObjects, call, secret, payload, stream>>

\* instance i: the close event of the payload accumulator runs its listener
TwinPayloadClose(i) ==
    /\ twin[i].payload.closing
    /\ \E rnd \in Entropy :
          twin' = [twin EXCEPT ![i].payload = delivered(@),
                               ![i].stream = onPayloadClose(@, twin[i].secret,
                                                            twin[i].payload, rnd)]
    /\ UNCHANGED <<supportsKeyObjects, call, secret, payload, stream>>

TwinNext ==
    \E i \in Instances :
        \/ TwinSecretWrite(i)
        \/ TwinPayloadWrite(i)
        \/ TwinSecretEnd(i)
        \/ TwinPayloadEnd(i)
        \/ TwinSecretClose(i)
        \/ TwinPayloadClose(i)

TwinSpec == TwinInit /\ [][TwinNext]_vars

\* ------------------------------------------------------------------------
\* Properties of the two instances
\* ------------------------------------------------------------------------
\* a finalized when its payload closed after its key, b when its key closed
\* after its payload, on the same accumulated contents
OppositeOrders ==
    /\ twin.a.stream.by = "payload"
    /\ twin.b.stream.by = "secret"
    /\ twin.a.secret.buffer = twin.b.secret.buffer
    /\ twin.a.payload.buffer = twin.b.payload.buffer

TokenOf(self) == self.events[1].arg

\* the families whose signature is a function of key and secured input
Deterministic(header) == header.alg \in {Str(TxtHS256), Str(TxtRS256), Str(TxtNone)}

====
